---- MODULE Spec2Model ----
(***************************************************************************)
(* wirefilter engine: the pooled regex (rhs_types/regex/imp_pool.rs), the  *)
(* exact-length chain and the simple function definition (functions.rs).   *)
(*                                                                         *)
(* Spec      : threads running Regex::from_str / clone / drop against the  *)
(*             process-wide REGEX_POOL, one step per memory or lock event. *)
(* FnSpec    : one call site of a SimpleFunctionDefinition                 *)
(*             (check_param* ; compile ; invocations of the closure).      *)
(* ChainSpec : an ExactSizeChain built from two sequences and drained by   *)
(*             next().                                                     *)
(***************************************************************************)
EXTENDS Integers, Sequences, FiniteSets, TLC

\* ------------------------------------------------------------------ bounds
NumThreads == 2
MaxObjs == 2
MaxHeld == 2

Threads == 1..NumThreads
Objs == 1..MaxObjs
\* pattern strings handed to from_str; "(" does not compile
Patterns == {"a", "("}
NoObj == 0
NoThread == 0
NoPat == ""

VARIABLES
    pool,      \* REGEX_POOL: the compiled objects that have an entry in the set
    arc,       \* arc[o] = [pat, strong]: the Arc<regex::bytes::Regex> allocations
    compiles,  \* number of successful RegexBuilder::build calls so far
    lock,      \* the thread owning the REGEX_POOL mutex, or NoThread
    held,      \* held[t][o]: Regex values thread t owns that point at o
    stack      \* stack[t]: the frames of the call thread t is executing

poolVars == <<pool, arc, compiles, lock, held, stack>>

VARIABLES
    def,       \* the SimpleFunctionDefinition the call site resolved to
    accepted,  \* the FunctionParams the parser has accepted so far
    chk,       \* the last check_param call: its inputs and its result
    closure,   \* what compile produced for this call site
    call,      \* the last invocation of the compiled closure
    clones,    \* LhsValue::clone calls on default values at this call site
    invokes    \* invocations of the compiled closure so far

fnVars == <<def, accepted, chk, closure, call, clones, invokes>>

VARIABLES
    a0, b0,    \* the two sequences an ExactSizeChain was built from
    ch,        \* the ExactSizeChain
    out,       \* the elements next() has returned so far
    k          \* the number of calls to next() so far

chainVars == <<a0, b0, ch, out, k>>

VARIABLES
    cells,     \* cells[c] = [ty, val, strong]: the Arc<dyn Any> allocations
    ctxs,      \* ctxs[i]: the FunctionDefinitionContext values the caller owns
    arcs,      \* arcs[c]: the Arc handles on c that downcast/into_any returned
    op         \* the last operation on a context and what it returned

ctxVars == <<cells, ctxs, arcs, op>>

VARIABLES
    obs        \* the last call of the function under study: inputs and result

VARIABLES
    budget     \* the calls (from_str, clone, drop) the threads will still start

vars == <<poolVars, fnVars, chainVars, ctxVars, obs, budget>>

\* ------------------------------------------------------------- pure helpers
\* regex::bytes::RegexBuilder::build succeeds or fails as a function of the
\* pattern string only
Compiles(s) == s # "("

\* Arc::strong_count
strong_count(o) == arc[o].strong

\* Arc::weak_count: the Arc is a private field and is never downgraded
weak_count(o) == 0

\* Regex::as_str / Borrow<str>
as_str(o) == arc[o].pat

\* HashSet::get(s) / HashSet::take(s) lookup through Borrow<str>
PoolGet(s) == IF \E e \in pool : as_str(e) = s
              THEN CHOOSE e \in pool : as_str(e) = s
              ELSE NoObj

Frame(pc, o, s, c) == [pc |-> pc, obj |-> o, pat |-> s, cached |-> c]

Idle(t) == stack[t] = <<>>
Top(t) == stack[t][Len(stack[t])]
AtPc(t, pc) == ~Idle(t) /\ Top(t).pc = pc
SetTop(t, f) == [stack EXCEPT ![t] = [@ EXCEPT ![Len(@)] = f]]
Pop(t) == [stack EXCEPT ![t] = SubSeq(@, 1, Len(@) - 1)]
Push(st, f) == Append(st, f)

HeldTotal(t) == LET Sum[n \in 0..MaxObjs] ==
                        IF n = 0 THEN 0 ELSE held[t][n] + Sum[n - 1]
                IN Sum[MaxObjs]

InFromStr(t) == ~Idle(t) /\ stack[t][1].pc \in {"fs_lock", "fs_get", "fs_build", "fs_insert"}
Pending == Cardinality({t \in Threads : InFromStr(t)})

\* Arc::clone
ArcClone(o) == [arc EXCEPT ![o].strong = @ + 1]
\* Arc::drop
ArcDrop(o) == [arc EXCEPT ![o].strong = @ - 1]

\* the state of the specifications that are not running
NoCheck == [n |-> 0, kind |-> "", ty |-> "", tag |-> "None"]
NoClosure == [state |-> "none", params_count |-> 0, opt_args |-> <<>>]
NoCall == [outcome |-> "none", args |-> <<>>, observed |-> 0, received |-> <<>>, len |-> 0]
NoDef == [params |-> <<>>, opt_params |-> <<>>]
NoChain == [a |-> <<>>, b |-> <<>>, len_a |-> 0, len_b |-> 0]

FnIdle ==
    /\ def = NoDef /\ accepted = <<>> /\ chk = NoCheck
    /\ closure = NoClosure /\ call = NoCall
    /\ clones = 0 /\ invokes = 0

ChainIdle ==
    /\ a0 = <<>> /\ b0 = <<>> /\ ch = NoChain /\ out = <<>> /\ k = 0

\* ---- FunctionDefinitionContext: the payload types and the idle state
MaxCtx == 2
Slots == 1..MaxCtx
CellIds == 1..MaxCtx
NoCell == 0
NoType == ""
\* the concrete types T a context is built for, and the values of each
CtxTypes == {"Option<u8>", "u16"}
NoCtx == [live |-> FALSE, inner |-> NoCell, clone_cb |-> NoType, fmt_cb |-> NoType]
NoOp == [name |-> "none", target |-> 0, made |-> 0, ty |-> NoType,
         tag |-> "", val |-> 0, fmt |-> <<>>]
NoObs == [fn |-> "none"]

CtxIdle ==
    /\ cells = [c \in CellIds |-> [ty |-> NoType, val |-> 0, strong |-> 0]]
    /\ ctxs = [i \in Slots |-> NoCtx]
    /\ arcs = [c \in CellIds |-> 0]
    /\ op = NoOp

ObsIdle == obs = NoObs /\ budget = 0

PoolIdle ==
    /\ pool = {} /\ compiles = 0 /\ lock = NoThread
    /\ arc = [o \in Objs |-> [pat |-> NoPat, strong |-> 0]]
    /\ held = [t \in Threads |-> [o \in Objs |-> 0]]
    /\ stack = [t \in Threads |-> <<>>]

\* ------------------------------------------------------------------- Init
PoolInit == PoolIdle

\* ------------------------------------------------------- Regex::from_str
\* a thread calls Regex::from_str(s)
FromStrCall(t, s) ==
    /\ Idle(t)
    /\ HeldTotal(t) < MaxHeld
    /\ compiles + Pending < MaxObjs
    /\ stack' = [stack EXCEPT ![t] = <<Frame("fs_lock", NoObj, s, NoObj)>>]
    /\ UNCHANGED <<pool, arc, compiles, lock, held>>
    /\ UNCHANGED <<fnVars, chainVars, ctxVars, obs, budget>>

\* faulty variant: from_str reads and writes the pool without taking the mutex
FromStrLock_NoMutex(t) ==
    /\ AtPc(t, "fs_lock")
    /\ lock' = lock
    /\ stack' = SetTop(t, [Top(t) EXCEPT !.pc = "fs_get"])
    /\ UNCHANGED <<pool, arc, compiles, held>>
    /\ UNCHANGED <<fnVars, chainVars, ctxVars, obs, budget>>

\* let mut pool = REGEX_POOL.lock().unwrap();
FromStrLock(t) ==
    /\ AtPc(t, "fs_lock")
    /\ lock = NoThread
    /\ lock' = t
    /\ stack' = SetTop(t, [Top(t) EXCEPT !.pc = "fs_get"])
    /\ UNCHANGED <<pool, arc, compiles, held>>
    /\ UNCHANGED <<fnVars, chainVars, ctxVars, obs, budget>>

\* if let Some(regex) = pool.get(s) { return Ok(regex.clone()); }
FromStrGet(t) ==
    /\ AtPc(t, "fs_get")
    /\ LET e == PoolGet(Top(t).pat) IN
         IF e # NoObj
         THEN /\ arc' = ArcClone(e)
              /\ stack' = SetTop(t, [Top(t) EXCEPT !.pc = "fs_ret", !.obj = e])
         ELSE /\ arc' = arc
              /\ stack' = SetTop(t, [Top(t) EXCEPT !.pc = "fs_build"])
    /\ UNCHANGED <<pool, compiles, lock, held>>
    /\ UNCHANGED <<fnVars, chainVars, ctxVars, obs, budget>>

\* Self(Arc::new(RegexBuilder::new(s).unicode(false).build()?))
FromStrBuild(t) ==
    /\ AtPc(t, "fs_build")
    /\ IF Compiles(Top(t).pat)
       THEN LET o == compiles + 1 IN
            /\ compiles' = o
            /\ arc' = [arc EXCEPT ![o] = [pat |-> Top(t).pat, strong |-> 1]]
            /\ stack' = SetTop(t, [Top(t) EXCEPT !.pc = "fs_insert", !.obj = o])
       ELSE /\ stack' = SetTop(t, [Top(t) EXCEPT !.pc = "fs_err"])
            /\ UNCHANGED <<arc, compiles>>
    /\ UNCHANGED <<pool, lock, held>>
    /\ UNCHANGED <<fnVars, chainVars, ctxVars, obs, budget>>

\* pool.insert(regex.clone());
FromStrInsert(t) ==
    /\ AtPc(t, "fs_insert")
    /\ arc' = ArcClone(Top(t).obj)
    /\ pool' = pool \cup {Top(t).obj}
    /\ stack' = SetTop(t, [Top(t) EXCEPT !.pc = "fs_ret"])
    /\ UNCHANGED <<compiles, lock, held>>
    /\ UNCHANGED <<fnVars, chainVars, ctxVars, obs, budget>>

\* Ok(regex): the guard goes out of scope and the caller owns the value
FromStrReturn(t) ==
    /\ AtPc(t, "fs_ret")
    /\ lock' = NoThread
    /\ held' = [held EXCEPT ![t][Top(t).obj] = @ + 1]
    /\ stack' = Pop(t)
    /\ UNCHANGED <<pool, arc, compiles>>
    /\ UNCHANGED <<fnVars, chainVars, ctxVars, obs, budget>>

\* faulty variant: the error return leaves the mutex locked
FromStrFail_KeepsGuard(t) ==
    /\ AtPc(t, "fs_err")
    /\ lock' = lock
    /\ stack' = Pop(t)
    /\ UNCHANGED <<pool, arc, compiles, held>>
    /\ UNCHANGED <<fnVars, chainVars, ctxVars, obs, budget>>

\* faulty variant: the error return empties the pool before the guard goes
FromStrFail_ClearsPool(t) ==
    /\ AtPc(t, "fs_err")
    /\ lock' = NoThread
    /\ pool' = {}
    /\ arc' = [o \in Objs |->
                 IF o \in pool THEN [arc[o] EXCEPT !.strong = @ - 1] ELSE arc[o]]
    /\ stack' = Pop(t)
    /\ UNCHANGED <<compiles, held>>
    /\ UNCHANGED <<fnVars, chainVars, ctxVars, obs, budget>>

\* Err(e) from `?`: the guard goes out of scope, nothing was created
FromStrFail(t) ==
    /\ AtPc(t, "fs_err")
    /\ lock' = NoThread
    /\ stack' = Pop(t)
    /\ UNCHANGED <<pool, arc, compiles, held>>
    /\ UNCHANGED <<fnVars, chainVars, ctxVars, obs, budget>>

\* ------------------------------------------------- #[derive(Clone)] Regex
RegexClone(t, o) ==
    /\ Idle(t)
    /\ held[t][o] > 0
    /\ HeldTotal(t) < MaxHeld
    /\ arc' = ArcClone(o)
    /\ held' = [held EXCEPT ![t][o] = @ + 1]
    /\ UNCHANGED <<pool, compiles, lock, stack>>
    /\ UNCHANGED <<fnVars, chainVars, ctxVars, obs, budget>>

\* ----------------------------------------------------------- Regex::drop
\* drop(cached_regex) in the frames st of one thread: None is a no-op and
\* the body of drop is over, Some(regex) runs Regex::drop on the entry first
DropTheCached(st, cached) ==
    IF cached = NoObj
    THEN [st EXCEPT ![Len(st)].pc = "d_release", ![Len(st)].cached = NoObj]
    ELSE Push([st EXCEPT ![Len(st)].pc = "d_release"],
              Frame("d_check", cached, as_str(cached), NoObj))

\* if Arc::strong_count(&self.0) == 2 && Arc::weak_count(&self.0) == 0
\* { lock, take } else { None }: the frame of a drop of o after the test
Checked(o) ==
    IF strong_count(o) = 2 /\ weak_count(o) = 0
    THEN Frame("d_lock", o, as_str(o), NoObj)
    ELSE Frame("d_release", o, as_str(o), NoObj)

\* a Regex value owned by t goes out of scope: Drop::drop(&mut self) runs
\* and reads the counts
DropCall(t, o) ==
    /\ Idle(t)
    /\ held[t][o] > 0
    /\ held' = [held EXCEPT ![t][o] = @ - 1]
    /\ stack' = [stack EXCEPT ![t] = <<Checked(o)>>]
    /\ UNCHANGED <<pool, arc, compiles, lock>>
    /\ UNCHANGED <<fnVars, chainVars, ctxVars, obs, budget>>

\* the drop of the entry taken out of the pool reads the counts
DropCheck(t) ==
    /\ AtPc(t, "d_check")
    /\ stack' = SetTop(t, Checked(Top(t).obj))
    /\ UNCHANGED <<pool, arc, compiles, lock, held>>
    /\ UNCHANGED <<fnVars, chainVars, ctxVars, obs, budget>>

\* let mut pool = REGEX_POOL.lock().unwrap();
DropLock(t) ==
    /\ AtPc(t, "d_lock")
    /\ lock = NoThread
    /\ lock' = t
    /\ stack' = SetTop(t, [Top(t) EXCEPT !.pc = "d_take"])
    /\ UNCHANGED <<pool, arc, compiles, held>>
    /\ UNCHANGED <<fnVars, chainVars, ctxVars, obs, budget>>

\* pool.take(self.as_str())
DropTake(t) ==
    /\ AtPc(t, "d_take")
    /\ LET e == PoolGet(as_str(Top(t).obj)) IN
         /\ pool' = pool \ {e}
         /\ stack' = SetTop(t, [Top(t) EXCEPT !.pc = "d_unlock", !.cached = e])
    /\ UNCHANGED <<arc, compiles, lock, held>>
    /\ UNCHANGED <<fnVars, chainVars, ctxVars, obs, budget>>

\* faulty variant: the guard lives until the end of drop
DropUnlock_KeepsGuard(t) ==
    /\ AtPc(t, "d_unlock")
    /\ lock' = lock
    /\ stack' = [stack EXCEPT ![t] = DropTheCached(@, Top(t).cached)]
    /\ UNCHANGED <<pool, arc, compiles, held>>
    /\ UNCHANGED <<fnVars, chainVars, ctxVars, obs, budget>>

\* end of the `if` block: the guard is dropped, the taken entry moves out
\* and is handed to drop(cached_regex)
DropUnlock(t) ==
    /\ AtPc(t, "d_unlock")
    /\ lock' = NoThread
    /\ stack' = [stack EXCEPT ![t] = DropTheCached(@, Top(t).cached)]
    /\ UNCHANGED <<pool, arc, compiles, held>>
    /\ UNCHANGED <<fnVars, chainVars, ctxVars, obs, budget>>

\* drop returns; the field self.0 is dropped: the strong count goes down
DropRelease(t) ==
    /\ AtPc(t, "d_release")
    /\ arc' = ArcDrop(Top(t).obj)
    /\ stack' = Pop(t)
    /\ UNCHANGED <<pool, compiles, lock, held>>
    /\ UNCHANGED <<fnVars, chainVars, ctxVars, obs, budget>>

PoolNext ==
    \E t \in Threads :
        \/ \E s \in Patterns : FromStrCall(t, s)
        \/ FromStrLock(t)
        \/ FromStrGet(t)
        \/ FromStrBuild(t)
        \/ FromStrInsert(t)
        \/ FromStrReturn(t)
        \/ FromStrFail(t)
        \/ \E o \in Objs : RegexClone(t, o)
        \/ \E o \in Objs : DropCall(t, o)
        \/ DropCheck(t)
        \/ DropLock(t)
        \/ DropTake(t)
        \/ DropUnlock(t)
        \/ DropRelease(t)

Init == PoolInit /\ FnIdle /\ ChainIdle /\ CtxIdle /\ ObsIdle
Next == PoolNext
Spec == Init /\ [][Next]_vars

\* ---- finitely many calls, fairly scheduled
MaxCalls == 5

\* Regex::from_str(s) is called by thread t, one of the calls left
FairFromStrCall(t, s) ==
    /\ budget > 0 /\ budget' = budget - 1
    /\ Idle(t)
    /\ HeldTotal(t) < MaxHeld
    /\ compiles + Pending < MaxObjs
    /\ stack' = [stack EXCEPT ![t] = <<Frame("fs_lock", NoObj, s, NoObj)>>]
    /\ UNCHANGED <<pool, arc, compiles, lock, held>>
    /\ UNCHANGED <<fnVars, chainVars, ctxVars, obs>>

\* a Regex value is cloned by thread t, one of the calls left
FairRegexClone(t, o) ==
    /\ budget > 0 /\ budget' = budget - 1
    /\ Idle(t)
    /\ held[t][o] > 0
    /\ HeldTotal(t) < MaxHeld
    /\ arc' = ArcClone(o)
    /\ held' = [held EXCEPT ![t][o] = @ + 1]
    /\ UNCHANGED <<pool, compiles, lock, stack>>
    /\ UNCHANGED <<fnVars, chainVars, ctxVars, obs>>

\* a Regex value owned by t goes out of scope, one of the calls left
FairDropCall(t, o) ==
    /\ budget > 0 /\ budget' = budget - 1
    /\ Idle(t)
    /\ held[t][o] > 0
    /\ held' = [held EXCEPT ![t][o] = @ - 1]
    /\ stack' = [stack EXCEPT ![t] = <<Checked(o)>>]
    /\ UNCHANGED <<pool, arc, compiles, lock>>
    /\ UNCHANGED <<fnVars, chainVars, ctxVars, obs>>

\* the steps of a call that need nothing from another thread
Running(t) ==
    \/ FromStrGet(t) \/ FromStrBuild(t) \/ FromStrInsert(t)
    \/ FromStrReturn(t) \/ FromStrFail(t)
    \/ DropCheck(t) \/ DropTake(t) \/ DropUnlock(t) \/ DropRelease(t)
\* REGEX_POOL.lock(): possible only while no thread owns the mutex
Acquire(t) == FromStrLock(t) \/ DropLock(t)

FairInit ==
    /\ PoolInit /\ FnIdle /\ ChainIdle /\ CtxIdle
    /\ obs = NoObs /\ budget = MaxCalls

FairNext ==
    \E t \in Threads :
        \/ \E s \in Patterns : FairFromStrCall(t, s)
        \/ \E o \in Objs : FairRegexClone(t, o)
        \/ \E o \in Objs : FairDropCall(t, o)
        \/ FromStrLock(t)
        \/ FromStrGet(t)
        \/ FromStrBuild(t)
        \/ FromStrInsert(t)
        \/ FromStrReturn(t)
        \/ FromStrFail(t)
        \/ DropCheck(t)
        \/ DropLock(t)
        \/ DropTake(t)
        \/ DropUnlock(t)
        \/ DropRelease(t)

\* fair scheduling: a thread that can take a step is not kept from it for
\* ever; waiting in lock() is a step that can be taken while the mutex is
\* free
Fairness == \A t \in Threads : WF_vars(Running(t) \/ Acquire(t))
FairSpec == FairInit /\ [][FairNext]_vars /\ Fairness

\* ------------------------------------------------ properties of the pool
Quiescent == lock = NoThread /\ \A t \in Threads : Idle(t)

ExternalFor(s) == {o \in Objs : as_str(o) = s /\ \E t \in Threads : held[t][o] > 0}

\* C1: no two live Regex values with equal pattern strings hold distinct
\* compiled objects (at most one compiled object per pattern string is live).
C1_OneCompiledPerPattern ==
    \A t1, t2 \in Threads : \A o1, o2 \in Objs :
        (held[t1][o1] > 0 /\ held[t2][o2] > 0 /\ as_str(o1) = as_str(o2))
            => o1 = o2

\* C2: in every quiescent state the pool has an entry for s only if some
\* external Regex for s is still live (no entry is leaked).
C2_NoLeakedEntry ==
    Quiescent => \A e \in pool : ExternalFor(as_str(e)) # {}

\* C3: whenever a thread is at the step that releases a strong reference
\* (the end of Regex::drop, for the value being dropped or for the entry
\* taken out of the pool), that thread does not hold the pool mutex.
C3_NoReleaseUnderLock ==
    \A t \in Threads :
        AtPc(t, "d_release") => lock # t

\* the entry taken out of the pool is being released, after the guard
C3_Witness ==
    \E t \in Threads :
        /\ Len(stack[t]) = 2
        /\ AtPc(t, "d_release")
        /\ stack[t][1].cached = Top(t).obj
        /\ lock # t

InCritical(t) ==
    ~Idle(t) /\ Top(t).pc \in {"fs_get", "fs_build", "fs_insert", "fs_ret", "fs_err"}

C4_State ==
    /\ \A t \in Threads : InCritical(t) => lock = t
    /\ \A t \in Threads :
          AtPc(t, "fs_ret") =>
              /\ Top(t).obj \in pool
              /\ as_str(Top(t).obj) = Top(t).pat
              /\ \A e \in pool : as_str(e) = Top(t).pat => e = Top(t).obj
    /\ \A t \in Threads :
          (AtPc(t, "fs_build") \/ AtPc(t, "fs_insert")) =>
              \A e \in pool : as_str(e) # Top(t).pat
    /\ \A e1, e2 \in pool : as_str(e1) = as_str(e2) => e1 = e2

C4_Step ==
    \A t \in Threads :
        /\ (AtPc(t, "fs_get") /\ stack'[t] # stack[t]) =>
              IF \E e \in pool : as_str(e) = Top(t).pat
              THEN /\ pool' = pool /\ compiles' = compiles
                   /\ stack'[t][1].pc = "fs_ret"
                   /\ stack'[t][1].obj \in pool
                   /\ as_str(stack'[t][1].obj) = Top(t).pat
              ELSE /\ pool' = pool /\ compiles' = compiles
                   /\ stack'[t][1].pc = "fs_build"
        /\ (AtPc(t, "fs_build") /\ Compiles(Top(t).pat) /\ stack'[t] # stack[t]) =>
              compiles' = compiles + 1 /\ pool' = pool
        /\ (AtPc(t, "fs_insert") /\ stack'[t] # stack[t]) =>
              /\ compiles' = compiles
              /\ pool' = pool \cup {Top(t).obj}
              /\ Cardinality(pool') = Cardinality(pool) + 1
        /\ (InCritical(t) /\ stack'[t] = stack[t]) =>
              pool' = pool /\ compiles' = compiles /\ lock' = lock

\* C4: from_str holds the pool lock from lookup to insert; on a hit it
\* returns the entry's object, compiles nothing and leaves the pool as it
\* was; on a miss it compiles once and inserts exactly one entry; no other
\* thread changes the pool in between, so the pool never has two entries for
\* one pattern and every returned value shares the pool entry's object.
C4_LookupOrInsertAtomic == [](C4_State) /\ [][C4_Step]_vars

\* a second caller waits for the lock while the first returns the object it
\* compiled for the same, previously absent, pattern
C4_Witness ==
    \E t1, t2 \in Threads :
        /\ t1 # t2
        /\ AtPc(t1, "fs_ret") /\ AtPc(t2, "fs_lock")
        /\ Top(t1).pat = Top(t2).pat
        /\ compiles = 1 /\ Top(t1).obj = 1

\* ============================================================ functions.rs
\* ------------------------------------------------------------------ bounds
MaxMand == 2
MaxOpt == 2
MaxLen == 3

\* FunctionArgKind
Kinds == {"Literal", "Field"}
\* Type (the closed enumeration, the part used here)
ScalarTypes == {"Int", "Bytes"}
ArrayTypes == {"Array(Int)", "Array(Bytes)"}
MapTypes == {"Map(Int)"}

\* LhsValue / RhsValue: a typed value
Value(ty, v) == [ty |-> ty, v |-> v]
\* GetType for LhsValue / RhsValue
ValueType(val) == val.ty

\* default values a definition may declare (LhsValue<'static>)
DefaultValues == {Value("Int", 10), Value("Bytes", 20)}

\* FunctionParam::Constant(&RhsValue) / FunctionParam::Variable(Type)
Constant(val) == [tag |-> "Constant", ty |-> ValueType(val), v |-> val.v]
Variable(ty) == [tag |-> "Variable", ty |-> ty, v |-> 0]
FunctionParams == {Constant(Value("Int", 1)), Constant(Value("Bytes", 2)),
                   Variable("Int"), Variable("Bytes")}

\* impl From<&FunctionParam> for FunctionArgKind
ArgKindOf(p) == IF p.tag = "Constant" THEN "Literal" ELSE "Field"

\* impl GetType for FunctionParam
get_type(p) == p.ty

\* CompiledValueResult: Ok(LhsValue) or Err(Type)
OkArg(val) == [ok |-> TRUE, ty |-> val.ty, v |-> val.v]
ErrArg(ty) == [ok |-> FALSE, ty |-> ty, v |-> 0]
\* the argument lists a closure is invoked with: n pairwise different
\* values, all present or the first one missing
ArgLists(n) ==
    {[i \in 1..n |-> OkArg(Value("Int", i))],
     [i \in 1..n |-> IF i = 1 THEN ErrArg("Int") ELSE OkArg(Value("Int", i))]}

\* ExpectedType
ExpectedArray == [tag |-> "Array", ty |-> ""]
ExpectedMap == [tag |-> "Map", ty |-> ""]
ExpectedTypeOf(ty) == [tag |-> "Type", ty |-> ty]

\* Result<(), FunctionParamError>
ParamOk == [tag |-> "Ok", kexp |-> "", kact |-> "", texp |-> {}, tact |-> ""]
KindMismatch(e, a) ==
    [tag |-> "KindMismatch", kexp |-> e, kact |-> a, texp |-> {}, tact |-> ""]
TypeMismatch(e, a) ==
    [tag |-> "TypeMismatch", kexp |-> "", kact |-> "", texp |-> e, tact |-> a]

\* FunctionParam::expect_arg_kind
expect_arg_kind(p, expected_arg_kind) ==
    LET kind == ArgKindOf(p) IN
    IF kind = expected_arg_kind THEN ParamOk
    ELSE KindMismatch(expected_arg_kind, kind)

\* faulty variant: Type(t) with an array type t accepts every array type
TypeMatches_AnyArray(expected_type, ty) ==
    CASE expected_type.tag = "Array" -> ty \in ArrayTypes
      [] expected_type.tag = "Map" -> ty \in MapTypes
      [] OTHER -> \/ ty = expected_type.ty
                  \/ ty \in ArrayTypes /\ expected_type.ty \in ArrayTypes

\* one arm of the match in expect_val_type: does expected_type accept ty
TypeMatches(expected_type, ty) ==
    CASE expected_type.tag = "Array" -> ty \in ArrayTypes
      [] expected_type.tag = "Map" -> ty \in MapTypes
      [] OTHER -> ty = expected_type.ty

RECURSIVE ExpectLoop(_, _, _, _)
ExpectLoop(ty, expected_types, i, types) ==
    IF i > Len(expected_types) THEN TypeMismatch(types, ty)
    ELSE IF TypeMatches(expected_types[i], ty) THEN ParamOk
    ELSE ExpectLoop(ty, expected_types, i + 1, types \cup {expected_types[i]})

\* FunctionParam::expect_val_type
expect_val_type(p, expected_types) ==
    ExpectLoop(get_type(p), expected_types, 1, {})

\* the number of items the for loop of expect_val_type takes from the
\* iterator before it returns
RECURSIVE ExpectConsumed(_, _, _)
ExpectConsumed(ty, expected_types, i) ==
    IF i > Len(expected_types) THEN Len(expected_types)
    ELSE IF TypeMatches(expected_types[i], ty) THEN i
    ELSE ExpectConsumed(ty, expected_types, i + 1)

\* SimpleFunctionParam / SimpleFunctionOptParam
SimpleFunctionParam == [arg_kind : Kinds, val_type : ScalarTypes]
SimpleFunctionOptParam == [arg_kind : Kinds, default_value : DefaultValues]

SeqsUpTo(S, n) == UNION {[1..m -> S] : m \in 0..n}

\* SimpleFunctionDefinition (return_type and implementation play no part in
\* check_param and compile)
SimpleFunctionDefinition ==
    [params : SeqsUpTo(SimpleFunctionParam, MaxMand),
     opt_params : SeqsUpTo(SimpleFunctionOptParam, MaxOpt)]

\* the `?` operator: the first error returns
AndThen(r1, r2) == IF r1.tag # "Ok" THEN r1 ELSE r2

\* faulty variant: the value type is checked before the argument kind
check_param_TypeFirst(d, index, next_param) ==
    IF index < Len(d.params)
    THEN LET param == d.params[index + 1] IN
         AndThen(expect_val_type(next_param, <<ExpectedTypeOf(param.val_type)>>),
                 expect_arg_kind(next_param, param.arg_kind))
    ELSE LET opt_param == d.opt_params[index - Len(d.params) + 1] IN
         AndThen(expect_val_type(next_param,
                     <<ExpectedTypeOf(ValueType(opt_param.default_value))>>),
                 expect_arg_kind(next_param, opt_param.arg_kind))

\* SimpleFunctionDefinition::check_param, for index = params.len() below
\* params.len() + opt_params.len()
check_param(d, index, next_param) ==
    IF index < Len(d.params)
    THEN LET param == d.params[index + 1] IN
         AndThen(expect_arg_kind(next_param, param.arg_kind),
                 expect_val_type(next_param, <<ExpectedTypeOf(param.val_type)>>))
    ELSE LET opt_param == d.opt_params[index - Len(d.params) + 1] IN
         AndThen(expect_arg_kind(next_param, opt_param.arg_kind),
                 expect_val_type(next_param,
                     <<ExpectedTypeOf(ValueType(opt_param.default_value))>>))

\* SimpleFunctionDefinition::arg_count
arg_count(d) == <<Len(d.params), Len(d.opt_params)>>

\* ---------------------------------------------------------- ExactSizeChain
\* ExactSizeChain::new
ExactSizeChain_new(a, b) ==
    [a |-> a, b |-> b, len_a |-> Len(a), len_b |-> Len(b)]

\* core::iter::Chain::next: the first iterator until it is exhausted, then
\* the second
InnerNext(c) ==
    IF c.a # <<>> THEN [some |-> TRUE, elem |-> <<Head(c.a)>>, a |-> Tail(c.a), b |-> c.b]
    ELSE IF c.b # <<>> THEN [some |-> TRUE, elem |-> <<Head(c.b)>>, a |-> c.a, b |-> Tail(c.b)]
    ELSE [some |-> FALSE, elem |-> <<>>, a |-> c.a, b |-> c.b]

\* faulty variant: `if` instead of `else if`, both counters go down
ChainNext_NoElse(c) ==
    LET r == InnerNext(c) IN
    IF ~r.some
    THEN [elem |-> <<>>, it |-> c]
    ELSE [elem |-> r.elem,
          it |-> [a |-> r.a, b |-> r.b,
                  len_a |-> IF c.len_a > 0 THEN c.len_a - 1 ELSE c.len_a,
                  len_b |-> IF c.len_b > 0 THEN c.len_b - 1 ELSE c.len_b]]

\* ExactSizeChain::next: the returned Option (elem is <<>> for None, <<e>>
\* for Some(e)) and the iterator afterwards
ChainNext(c) ==
    LET r == InnerNext(c) IN
    IF ~r.some
    THEN [elem |-> <<>>, it |-> c]
    ELSE [elem |-> r.elem,
          it |-> [a |-> r.a, b |-> r.b,
                  len_a |-> IF c.len_a > 0 THEN c.len_a - 1 ELSE c.len_a,
                  len_b |-> IF c.len_a > 0 THEN c.len_b
                            ELSE IF c.len_b > 0 THEN c.len_b - 1 ELSE c.len_b]]

\* faulty variant: len() forgets the second iterator
ChainLen_FirstOnly(c) == c.len_a

\* ExactSizeIterator::len for ExactSizeChain
ChainLen(c) == c.len_a + c.len_b

\* what a function body that reads all of its FunctionArgs sees
RECURSIVE Drain(_)
Drain(c) ==
    LET r == ChainNext(c) IN
    IF r.elem = <<>> THEN <<>> ELSE r.elem \o Drain(r.it)

\* ------------------------------------- SimpleFunctionDefinition::compile
\* usize arithmetic; TLC's integers are 32 bits wide, so the word is
\* modelled 30 bits wide and Vec lengths stay far below half of it
UsizeModulus == 2^30

\* faulty variant: saturating_sub
UsizeSub_Saturating(x, y, overflow_checks) ==
    IF x >= y THEN [panic |-> FALSE, v |-> x - y]
    ELSE [panic |-> FALSE, v |-> 0]

\* params_count - self.params.len(): with overflow checks the subtraction
\* panics below zero, without them it wraps
UsizeSub(x, y, overflow_checks) ==
    IF x >= y THEN [panic |-> FALSE, v |-> x - y]
    ELSE IF overflow_checks THEN [panic |-> TRUE, v |-> 0]
    ELSE [panic |-> FALSE, v |-> (x - y) % UsizeModulus]

\* faulty variant: the slice keeps the front of the optional parameters
SliceFrom_Prefix(sq, start) ==
    IF start > Len(sq) THEN [panic |-> TRUE, v |-> <<>>]
    ELSE [panic |-> FALSE, v |-> SubSeq(sq, 1, Len(sq) - start)]

\* &self.opt_params[start..]: panics when start is past the end
SliceFrom(sq, start) ==
    IF start > Len(sq) THEN [panic |-> TRUE, v |-> <<>>]
    ELSE [panic |-> FALSE, v |-> SubSeq(sq, start + 1, Len(sq))]

Panicked == [state |-> "panic", params_count |-> 0, opt_args |-> <<>>]

\* the closure compile returns (its captures), or the panic it ends in
compile(d, params_count, overflow_checks) ==
    LET start == UsizeSub(params_count, Len(d.params), overflow_checks) IN
    IF start.panic THEN Panicked
    ELSE LET opt_params == SliceFrom(d.opt_params, start.v) IN
         IF opt_params.panic THEN Panicked
         ELSE [state |-> "compiled",
               params_count |-> params_count,
               opt_args |-> [i \in 1..Len(opt_params.v) |->
                                OkArg(opt_params.v[i].default_value)]]

\* faulty variant: the closure without its assert_eq!
invoke_NoAssert(cl, args) ==
    IF cl.opt_args = <<>>
    THEN [outcome |-> "called", args |-> args, observed |-> Len(args),
          received |-> args, len |-> Len(args)]
    ELSE LET c == ExactSizeChain_new(args, cl.opt_args) IN
         [outcome |-> "called", args |-> args, observed |-> Len(args),
          received |-> Drain(c), len |-> ChainLen(c)]

\* calling the compiled closure with args
invoke(cl, args) ==
    IF cl.params_count # Len(args)
    THEN [outcome |-> "assert_failed", args |-> args, observed |-> Len(args),
          received |-> <<>>, len |-> 0]
    ELSE IF cl.opt_args = <<>>
    THEN [outcome |-> "called", args |-> args, observed |-> Len(args),
          received |-> args, len |-> Len(args)]
    ELSE LET c == ExactSizeChain_new(args, cl.opt_args) IN
         [outcome |-> "called", args |-> args, observed |-> Len(args),
          received |-> Drain(c), len |-> ChainLen(c)]

\* opt_param.default_value.clone() in compile: one call for each element
\* of opt_args
CompileClones(cl) == Len(cl.opt_args)

\* opt_args.iter().cloned() in the closure: one call of clone for each
\* default the function body takes from the chain, here all of them
InvokeClones(cl, c) ==
    IF c.outcome = "called" /\ cl.opt_args # <<>>
    THEN Len(c.received) - Len(c.args)
    ELSE 0

\* the number of invocations of one closure that are followed
MaxInvokes == 2

\* the longest argument list worth trying on d: one more than it can take
MaxArgs(d) == Len(d.params) + Len(d.opt_params) + 1

FnInit ==
    /\ def \in SimpleFunctionDefinition
    /\ accepted = <<>> /\ chk = NoCheck
    /\ closure = NoClosure /\ call = NoCall
    /\ clones = 0 /\ invokes = 0
    /\ PoolIdle /\ ChainIdle /\ CtxIdle /\ ObsIdle

\* the parser lexed one more argument and calls check_param on it; an error
\* aborts the compilation of the expression
CheckParam(p) ==
    /\ closure.state = "none"
    /\ chk.tag \in {"None", "Ok"}
    /\ Len(accepted) < Len(def.params) + Len(def.opt_params)
    /\ LET res == check_param(def, Len(accepted), p) IN
         /\ chk' = [n |-> Len(accepted), kind |-> ArgKindOf(p),
                    ty |-> get_type(p), tag |-> res.tag]
         /\ accepted' = IF res.tag = "Ok" THEN Append(accepted, p) ELSE accepted
    /\ UNCHANGED <<def, closure, call, clones, invokes, poolVars, chainVars, ctxVars, obs, budget>>

\* compile is called with the accepted parameters
Compile(overflow_checks) ==
    /\ closure.state = "none"
    /\ chk.tag \in {"None", "Ok"}
    /\ closure' = compile(def, Len(accepted), overflow_checks)
    /\ clones' = clones + CompileClones(closure')
    /\ UNCHANGED <<def, accepted, chk, call, invokes, poolVars, chainVars, ctxVars, obs, budget>>

\* the closure is invoked with some argument values
Invoke(args) ==
    /\ closure.state = "compiled"
    /\ call.outcome = "none"
    /\ invokes < MaxInvokes
    /\ call' = invoke(closure, args)
    /\ clones' = clones + InvokeClones(closure, call')
    /\ invokes' = invokes + 1
    /\ UNCHANGED <<def, accepted, chk, closure, poolVars, chainVars, ctxVars, obs, budget>>

\* the invocation is over (returned or unwound); the closure, a Fn, can be
\* invoked again
InvokeDone ==
    /\ call.outcome # "none"
    /\ call' = NoCall
    /\ UNCHANGED <<def, accepted, chk, closure, clones, invokes, poolVars, chainVars, ctxVars, obs, budget>>

FnNext ==
    \/ \E p \in FunctionParams : CheckParam(p)
    \/ \E oc \in BOOLEAN : Compile(oc)
    \/ \E n \in 0..MaxArgs(def) : \E args \in ArgLists(n) : Invoke(args)
    \/ InvokeDone

FnSpec == FnInit /\ [][FnNext]_vars

\* ----------------------------------------------- ExactSizeChain, stepwise
Elems == {1, 2}
ExtraNext == 2

ChainInit ==
    /\ a0 \in SeqsUpTo(Elems, MaxLen)
    /\ b0 \in SeqsUpTo(Elems, MaxLen)
    /\ ch = ExactSizeChain_new(a0, b0)
    /\ out = <<>> /\ k = 0
    /\ PoolIdle /\ FnIdle /\ CtxIdle /\ ObsIdle

\* one call of next()
ChainStep ==
    /\ k < Len(a0) + Len(b0) + ExtraNext
    /\ LET r == ChainNext(ch) IN
         /\ ch' = r.it
         /\ out' = out \o r.elem
    /\ k' = k + 1
    /\ UNCHANGED <<a0, b0, poolVars, fnVars, ctxVars, obs, budget>>

ChainSpecNext == ChainStep
ChainSpec == ChainInit /\ [][ChainSpecNext]_vars

\* -------------------------------- properties of SimpleFunctionDefinition
Mand == Len(def.params)
Opt == Len(def.opt_params)
\* the optional arguments the call site supplied explicitly
Supplied == Len(accepted) - Mand

\* C5: a closure exists only for Mand <= n <= Mand + Opt accepted
\* parameters; an invocation reaches the function pointer exactly when its
\* explicit-argument count is n = Mand + Supplied, and any other count
\* fails the arity assertion with nothing handed to the function pointer.
C5_ObservedArity ==
    closure.state = "compiled" =>
        /\ Mand <= Len(accepted) /\ Len(accepted) <= Mand + Opt
        /\ call.outcome = "called" => call.observed = Mand + Supplied
        /\ (call.outcome # "none" /\ Len(call.args) # Len(accepted)) =>
              call.outcome = "assert_failed" /\ call.received = <<>>
        /\ (call.outcome # "none" /\ Len(call.args) = Len(accepted)) =>
              call.outcome = "called"

C5_Witness ==
    /\ call.outcome = "assert_failed"
    /\ Supplied = 1 /\ Opt = 2
    /\ Len(call.args) = Mand + Opt

\* C6 as stated: the function pointer receives Mand + Supplied arguments,
\* and Mand + Opt of them only when every optional argument was explicit.
C6_AsStated ==
    call.outcome = "called" =>
        /\ call.len = Mand + Supplied
        /\ Len(call.received) = Mand + Supplied
        /\ (call.len = Mand + Opt => Supplied = Opt)

\* C6 amended: the function pointer always receives Mand + Opt arguments
\* (len() and the elements it can read), of which Mand + Supplied are the
\* explicit arguments the closure was invoked with.
C6_ReceivedArity ==
    call.outcome = "called" =>
        /\ call.len = Mand + Opt
        /\ Len(call.received) = Mand + Opt
        /\ call.observed = Mand + Supplied

C6_Witness ==
    /\ call.outcome = "called"
    /\ Supplied < Opt
    /\ call.len = Mand + Opt /\ call.observed < call.len

\* the default values of the optional parameters from index `from` on
DefaultsFrom(from) ==
    [i \in 1..(Opt - from) |-> OkArg(def.opt_params[from + i].default_value)]

\* C7: an invocation hands the function pointer the explicit arguments in
\* call order followed by the defaults of the optional parameters at indices
\* n - Mand .. Opt - 1 in declaration order, and the explicit arguments alone
\* when n = Mand + Opt.
C7_DefaultSplicing ==
    call.outcome = "called" =>
        /\ call.received = call.args \o DefaultsFrom(Supplied)
        /\ Supplied = Opt => call.received = call.args

\* one optional parameter defaulting to 10, no explicit argument
C7_Witness ==
    /\ call.outcome = "called"
    /\ Mand = 0 /\ Opt = 1 /\ def.opt_params[1].default_value = Value("Int", 10)
    /\ call.args = <<>>
    /\ call.received = <<OkArg(Value("Int", 10))>>

\* the slot check_param must select for the recorded call
SlotKind == IF chk.n < Mand THEN def.params[chk.n + 1].arg_kind
            ELSE def.opt_params[chk.n - Mand + 1].arg_kind
SlotType == IF chk.n < Mand THEN def.params[chk.n + 1].val_type
            ELSE def.opt_params[chk.n - Mand + 1].default_value.ty

C9_State ==
    chk.tag # "None" =>
        /\ chk.n < Mand + Opt
        /\ chk.tag = "Ok" <=> (chk.kind = SlotKind /\ chk.ty = SlotType)
        /\ chk.kind # SlotKind => chk.tag = "KindMismatch"
        /\ (chk.kind = SlotKind /\ chk.ty # SlotType) => chk.tag = "TypeMismatch"

\* C9: check_param picks the mandatory slot n when n < Mand and the optional
\* slot n - Mand otherwise, answers Ok iff kind and type both match that
\* slot, reports KindMismatch when the kind differs (whatever the type), and
\* leaves the definition as it was.
C9_SlotSelection == [](C9_State) /\ [][def' = def]_vars

\* an optional slot refused on its kind although the type differs too
C9_Witness ==
    /\ chk.tag = "KindMismatch"
    /\ Mand > 0 /\ chk.n >= Mand
    /\ chk.ty # SlotType

\* C10: compile called with fewer than Mand parameters never yields a
\* closure (it panics), so no invocation ever happens for such a call site.
C10_TooFewRejectedAtCompile ==
    /\ (closure.state # "none" /\ Len(accepted) < Mand) => closure.state = "panic"
    /\ closure.state = "compiled" => Len(accepted) >= Mand
    /\ call.outcome # "none" => Len(accepted) >= Mand

C10_Witness ==
    /\ closure.state = "panic"
    /\ Len(accepted) + 1 < Mand
    /\ call.outcome = "none"

\* ------------------------------------------ properties of ExactSizeChain
Total == Len(a0) + Len(b0)
Min(x, y) == IF x < y THEN x ELSE y
Max(x, y) == IF x > y THEN x ELSE y

\* C8: after k calls of next(), len() is max(0, a + b - k) and equals the
\* sum of the two remaining lengths; next() has returned the elements of the
\* first sequence, then those of the second, in order, and then None; len()
\* is 0 exactly when the next call returns None.
C8_ExactLen ==
    /\ ChainLen(ch) = Max(0, Total - k)
    /\ ChainLen(ch) = Len(ch.a) + Len(ch.b)
    /\ out = SubSeq(a0 \o b0, 1, Min(k, Total))
    /\ ChainLen(ch) = 0 <=> ChainNext(ch).elem = <<>>

\* the first sequence is exhausted and the second partly drawn
C8_Witness ==
    /\ Len(a0) >= 2 /\ ch.a = <<>>
    /\ ch.b # <<>> /\ Len(ch.b) < Len(b0)
    /\ ch.len_a = 0 /\ ch.len_b = Len(ch.b)

\* ------------------------------------------------ FunctionDefinitionContext
\* <T as Debug>::fmt for the payload types: Option<u8> holds None (0) or
\* Some(x) (x + 1), u16 holds itself
DebugOf(ty, val) ==
    IF ty = "Option<u8>"
    THEN (IF val = 0 THEN "None" ELSE IF val = 43 THEN "Some(42)" ELSE "Some(_)")
    ELSE (IF val = 42 THEN "42" ELSE IF val = 7 THEN "7" ELSE "_")

PayloadValues(ty) == IF ty = "Option<u8>" THEN {0, 43} ELSE {7, 42}

\* Arc::new returns a fresh allocation
HasFreeCell == \E c \in CellIds : cells[c].strong = 0
FreeCell == CHOOSE c \in CellIds :
    /\ cells[c].strong = 0
    /\ \A d \in CellIds : cells[d].strong = 0 => c <= d
ArcNew(cs, c, ty, val) == [cs EXCEPT ![c] = [ty |-> ty, val |-> val, strong |-> 1]]
ArcRelease(cs, c) ==
    [cs EXCEPT ![c] = IF @.strong = 1
                      THEN [ty |-> NoType, val |-> 0, strong |-> 0]
                      ELSE [@ EXCEPT !.strong = @ - 1]]

\* Any::is::<T> on the payload
IsType(cell, T) == cell.ty = T

Context(inner, clone_cb, fmt_cb) ==
    [live |-> TRUE, inner |-> inner, clone_cb |-> clone_cb, fmt_cb |-> fmt_cb]

\* clone_any::<T>: downcast_ref::<T>().unwrap().clone() into a new Arc
clone_any(T, cell) ==
    IF IsType(cell, T) THEN [tag |-> "Ok", ty |-> T, val |-> cell.val]
    ELSE [tag |-> "panic", ty |-> NoType, val |-> 0]

\* fmt_any::<T>: downcast_ref::<T>().unwrap().fmt(f)
fmt_any(T, cell) == IF IsType(cell, T) THEN DebugOf(T, cell.val) ELSE "panic"

\* <FunctionDefinitionContext as Debug>::fmt: the three writes, in order
DebugFmt(cs, ctx) ==
    <<"FunctionDefinitionContext(", fmt_any(ctx.fmt_cb, cs[ctx.inner]), ")">>

Live(i) == ctxs[i].live
InnerOf(i) == cells[ctxs[i].inner]
Returned(name, i, made, ty, tag, val, fmt) ==
    [name |-> name, target |-> i, made |-> made, ty |-> ty,
     tag |-> tag, val |-> val, fmt |-> fmt]

\* FunctionDefinitionContext::new::<T>(t)
CtxNew(i, T, t) ==
    /\ ~Live(i) /\ HasFreeCell
    /\ cells' = ArcNew(cells, FreeCell, T, t)
    /\ ctxs' = [ctxs EXCEPT ![i] = Context(FreeCell, T, T)]
    /\ op' = Returned("new", i, i, T, "Ok", t, <<>>)
    /\ UNCHANGED <<arcs, obs, budget, poolVars, fnVars, chainVars>>

\* faulty variant: clone shares the allocation (Arc::clone) instead of
\* calling clone_cb
CtxClone_SharedArc(i, j) ==
    /\ Live(i) /\ ~Live(j) /\ HasFreeCell
    /\ cells' = [cells EXCEPT ![ctxs[i].inner].strong = @ + 1]
    /\ ctxs' = [ctxs EXCEPT ![j] = ctxs[i]]
    /\ op' = Returned("clone", i, j, InnerOf(i).ty, "Ok", InnerOf(i).val, <<>>)
    /\ UNCHANGED <<arcs, obs, budget, poolVars, fnVars, chainVars>>

\* let ctxs[j] = ctxs[i].clone()
CtxClone(i, j) ==
    /\ Live(i) /\ ~Live(j) /\ HasFreeCell
    /\ LET made == clone_any(ctxs[i].clone_cb, InnerOf(i)) IN
         IF made.tag = "Ok"
         THEN /\ cells' = ArcNew(cells, FreeCell, made.ty, made.val)
              /\ ctxs' = [ctxs EXCEPT ![j] =
                            Context(FreeCell, ctxs[i].clone_cb, ctxs[i].fmt_cb)]
              /\ op' = Returned("clone", i, j, made.ty, "Ok", made.val, <<>>)
         ELSE /\ op' = Returned("clone", i, 0, NoType, "panic", 0, <<>>)
              /\ UNCHANGED <<cells, ctxs>>
    /\ UNCHANGED <<arcs, obs, budget, poolVars, fnVars, chainVars>>

\* as_any_ref().downcast_ref::<T>(): Some(&value) or None
AsAnyRef(i, T) ==
    /\ Live(i)
    /\ op' = IF IsType(InnerOf(i), T)
             THEN Returned("as_any_ref", i, 0, T, "Some", InnerOf(i).val, <<>>)
             ELSE Returned("as_any_ref", i, 0, T, "None", 0, <<>>)
    /\ UNCHANGED <<cells, ctxs, arcs, obs, budget, poolVars, fnVars, chainVars>>

\* <Self as AsRef<T>>::as_ref: downcast_ref::<T>().unwrap()
AsRef(i, T) ==
    /\ Live(i)
    /\ op' = IF IsType(InnerOf(i), T)
             THEN Returned("as_ref", i, 0, T, "Ok", InnerOf(i).val, <<>>)
             ELSE Returned("as_ref", i, 0, T, "panic", 0, <<>>)
    /\ UNCHANGED <<cells, ctxs, arcs, obs, budget, poolVars, fnVars, chainVars>>

\* Arc::get_mut: Some only for the one handle on the allocation
get_mut(cell) == cell.strong = 1

\* *as_any_mut().downcast_mut::<T>()? = t: get_mut(..).unwrap(), then the
\* write when the payload is a T
AsAnyMut(i, T, t) ==
    /\ Live(i)
    /\ IF ~get_mut(InnerOf(i))
       THEN /\ op' = Returned("as_any_mut", i, 0, T, "panic", 0, <<>>)
            /\ UNCHANGED cells
       ELSE IF IsType(InnerOf(i), T)
       THEN /\ cells' = [cells EXCEPT ![ctxs[i].inner].val = t]
            /\ op' = Returned("as_any_mut", i, 0, T, "Some", t, <<>>)
       ELSE /\ op' = Returned("as_any_mut", i, 0, T, "None", 0, <<>>)
            /\ UNCHANGED cells
    /\ UNCHANGED <<ctxs, arcs, obs, budget, poolVars, fnVars, chainVars>>

\* *<Self as AsMut<T>>::as_mut() = t: both unwraps, then the write
AsMut(i, T, t) ==
    /\ Live(i)
    /\ IF get_mut(InnerOf(i)) /\ IsType(InnerOf(i), T)
       THEN /\ cells' = [cells EXCEPT ![ctxs[i].inner].val = t]
            /\ op' = Returned("as_mut", i, 0, T, "Ok", t, <<>>)
       ELSE /\ op' = Returned("as_mut", i, 0, T, "panic", 0, <<>>)
            /\ UNCHANGED cells
    /\ UNCHANGED <<ctxs, arcs, obs, budget, poolVars, fnVars, chainVars>>

\* faulty variant: into_any hands out a clone of the Arc and leaves the
\* context in place
IntoAny_KeepsContext(i) ==
    /\ Live(i) /\ InnerOf(i).strong < MaxCtx
    /\ cells' = [cells EXCEPT ![ctxs[i].inner].strong = @ + 1]
    /\ arcs' = [arcs EXCEPT ![ctxs[i].inner] = @ + 1]
    /\ op' = Returned("into_any", i, 0, InnerOf(i).ty, "Ok", InnerOf(i).val, <<>>)
    /\ UNCHANGED <<ctxs, obs, budget, poolVars, fnVars, chainVars>>

\* into_any(self): the Arc moves to the caller, the callbacks are dropped
IntoAny(i) ==
    /\ Live(i)
    /\ ctxs' = [ctxs EXCEPT ![i] = NoCtx]
    /\ arcs' = [arcs EXCEPT ![ctxs[i].inner] = @ + 1]
    /\ op' = Returned("into_any", i, 0, InnerOf(i).ty, "Ok", InnerOf(i).val, <<>>)
    /\ UNCHANGED <<cells, obs, budget, poolVars, fnVars, chainVars>>

\* faulty variant: the error context is rebuilt with the callbacks of the
\* requested type
downcast_CallbacksOfT(ctx, cell, T) ==
    IF IsType(cell, T) THEN [tag |-> "Ok", ctx |-> NoCtx]
    ELSE [tag |-> "Err", ctx |-> Context(ctx.inner, T, T)]

\* downcast::<T>(self): Arc::downcast::<T>, and on Err the context rebuilt
\* from the destructured fields
downcast(ctx, cell, T) ==
    IF IsType(cell, T) THEN [tag |-> "Ok", ctx |-> NoCtx]
    ELSE [tag |-> "Err", ctx |-> Context(ctx.inner, ctx.clone_cb, ctx.fmt_cb)]

\* ctxs[i].downcast::<T>(); the caller keeps what comes back: the Arc<T>, or
\* the context of the Err in the same binding
Downcast(i, T) ==
    /\ Live(i)
    /\ LET r == downcast(ctxs[i], InnerOf(i), T) IN
         /\ ctxs' = [ctxs EXCEPT ![i] = r.ctx]
         /\ IF r.tag = "Ok"
            THEN /\ arcs' = [arcs EXCEPT ![ctxs[i].inner] = @ + 1]
                 /\ op' = Returned("downcast", i, 0, T, "Ok", InnerOf(i).val, <<>>)
            ELSE /\ op' = Returned("downcast", i, 0, T, "Err", 0, <<>>)
                 /\ UNCHANGED arcs
    /\ UNCHANGED <<cells, obs, budget, poolVars, fnVars, chainVars>>

\* ctxs[i].try_unwrap::<T>(): downcast, then Arc::try_unwrap on the Arc<T>,
\* which gives the value only to the last handle
TryUnwrap(i, T) ==
    /\ Live(i)
    /\ LET r == downcast(ctxs[i], InnerOf(i), T) IN
         /\ ctxs' = [ctxs EXCEPT ![i] = r.ctx]
         /\ IF r.tag = "Err"
            THEN /\ op' = Returned("try_unwrap", i, 0, T, "Err", 0, <<>>)
                 /\ UNCHANGED cells
            ELSE IF InnerOf(i).strong = 1
            THEN /\ op' = Returned("try_unwrap", i, 0, T, "Ok", InnerOf(i).val, <<>>)
                 /\ cells' = ArcRelease(cells, ctxs[i].inner)
            ELSE /\ op' = Returned("try_unwrap", i, 0, T, "unreachable", 0, <<>>)
                 /\ cells' = ArcRelease(cells, ctxs[i].inner)
    /\ UNCHANGED <<arcs, obs, budget, poolVars, fnVars, chainVars>>

\* drop(ctxs[i])
CtxDrop(i) ==
    /\ Live(i)
    /\ ctxs' = [ctxs EXCEPT ![i] = NoCtx]
    /\ cells' = ArcRelease(cells, ctxs[i].inner)
    /\ op' = Returned("drop", i, 0, NoType, "Ok", 0, <<>>)
    /\ UNCHANGED <<arcs, obs, budget, poolVars, fnVars, chainVars>>

\* format!("{:?}", ctxs[i])
CtxDebug(i) ==
    /\ Live(i)
    /\ op' = Returned("fmt", i, 0, NoType, "Ok", 0, DebugFmt(cells, ctxs[i]))
    /\ UNCHANGED <<cells, ctxs, arcs, obs, budget, poolVars, fnVars, chainVars>>

\* the caller clones an Arc that downcast or into_any gave it
HandleClone(c) ==
    /\ arcs[c] > 0 /\ cells[c].strong < MaxCtx
    /\ arcs' = [arcs EXCEPT ![c] = @ + 1]
    /\ cells' = [cells EXCEPT ![c].strong = @ + 1]
    /\ op' = Returned("arc_clone", 0, 0, NoType, "Ok", 0, <<>>)
    /\ UNCHANGED <<ctxs, obs, budget, poolVars, fnVars, chainVars>>

\* the caller drops such an Arc
HandleDrop(c) ==
    /\ arcs[c] > 0
    /\ arcs' = [arcs EXCEPT ![c] = @ - 1]
    /\ cells' = ArcRelease(cells, c)
    /\ op' = Returned("arc_drop", 0, 0, NoType, "Ok", 0, <<>>)
    /\ UNCHANGED <<ctxs, obs, budget, poolVars, fnVars, chainVars>>

CtxInit == CtxIdle /\ ObsIdle /\ PoolIdle /\ FnIdle /\ ChainIdle

CtxNext ==
    \/ \E i \in Slots, T \in CtxTypes : \E t \in PayloadValues(T) : CtxNew(i, T, t)
    \/ \E i, j \in Slots : CtxClone(i, j)
    \/ \E i \in Slots, T \in CtxTypes : AsAnyRef(i, T)
    \/ \E i \in Slots, T \in CtxTypes : AsRef(i, T)
    \/ \E i \in Slots, T \in CtxTypes : \E t \in PayloadValues(T) : AsAnyMut(i, T, t)
    \/ \E i \in Slots, T \in CtxTypes : \E t \in PayloadValues(T) : AsMut(i, T, t)
    \/ \E i \in Slots : IntoAny(i)
    \/ \E i \in Slots, T \in CtxTypes : Downcast(i, T)
    \/ \E i \in Slots, T \in CtxTypes : TryUnwrap(i, T)
    \/ \E i \in Slots : CtxDrop(i)
    \/ \E i \in Slots : CtxDebug(i)
    \/ \E c \in CellIds : HandleClone(c)
    \/ \E c \in CellIds : HandleDrop(c)

CtxSpec == CtxInit /\ [][CtxNext]_vars

\* a step leaves every context it does not operate on as it was: the same
\* fields, the same payload, the same Debug output
Untouched(i) ==
    /\ ctxs'[i] = ctxs[i]
    /\ cells'[ctxs[i].inner] = cells[ctxs[i].inner]
    /\ DebugFmt(cells', ctxs'[i]) = DebugFmt(cells, ctxs[i])

\* what clone gives: an equal payload in an allocation of its own, with the
\* callbacks of the source
ClonedApart(i, j) ==
    /\ ctxs'[j].live /\ ctxs'[j].inner # ctxs'[i].inner
    /\ cells'[ctxs'[j].inner].strong = 1 /\ cells'[ctxs'[i].inner].strong = 1
    /\ cells'[ctxs'[j].inner].ty = cells'[ctxs'[i].inner].ty
    /\ cells'[ctxs'[j].inner].val = cells'[ctxs'[i].inner].val
    /\ ctxs'[j].clone_cb = ctxs'[i].clone_cb /\ ctxs'[j].fmt_cb = ctxs'[i].fmt_cb
    /\ Untouched(i)

C11_Step ==
    /\ \A i \in Slots : (Live(i) /\ op'.target # i) => Untouched(i)
    /\ op'.name = "clone" => op'.tag = "Ok" /\ ClonedApart(op'.target, op'.made)

\* C11: a clone of a context owns an equal payload in a separate allocation
\* with the same clone and debug callbacks, and no operation on one context
\* (a write through as_any_mut or as_mut, downcast, try_unwrap, into_any,
\* drop) changes the payload or the Debug output of any other context
C11_CloneIndependence == [][C11_Step]_vars

\* a context was written through as_mut while another context of the same
\* payload type kept a different value
C11_Witness ==
    /\ op.name = "as_mut" /\ op.tag = "Ok"
    /\ \E j \in Slots :
         /\ j # op.target /\ Live(j)
         /\ InnerOf(j).ty = op.ty /\ InnerOf(j).val # op.val
         /\ ctxs[j].inner # ctxs[op.target].inner

C12_Step ==
    op'.name \in {"downcast", "try_unwrap"} =>
      LET i == op'.target
          c == ctxs[i].inner IN
        IF cells[c].ty # op'.ty
        THEN /\ op'.tag = "Err"
             /\ Untouched(i) /\ ctxs'[i].live
             /\ arcs' = arcs
        ELSE /\ op'.tag = "Ok" /\ op'.val = cells[c].val
             /\ ~ctxs'[i].live
             /\ IF op'.name = "downcast"
                THEN /\ cells'[c] = cells[c]
                     /\ arcs'[c] = arcs[c] + 1
                ELSE /\ cells'[c].strong = 0
                     /\ arcs' = arcs

\* C12: downcast::<T> and try_unwrap::<T> on a context whose payload is not
\* a T return Err with a context holding the same allocation, payload and
\* callbacks; on a payload of type T downcast returns the stored allocation
\* and try_unwrap returns the payload by value
C12_DowncastKeepsContext == [][C12_Step]_vars

\* a downcast to the wrong type gave the context back, after a downcast to
\* the right type had handed another context's allocation to the caller
C12_Witness ==
    /\ op.name = "downcast" /\ op.tag = "Err"
    /\ Live(op.target) /\ InnerOf(op.target).ty # op.ty
    /\ \E c \in CellIds : arcs[c] > 0 /\ cells[c].ty = op.ty

\* --------------------------------------- FunctionParam::expect_val_type
MaxExp == 3
\* the parameters a call site can hold: literals, and fields of any type
AnyParams == FunctionParams \cup {Variable(ty) : ty \in ArrayTypes \cup MapTypes}
ExpectedTypes ==
    {ExpectedArray, ExpectedMap, ExpectedTypeOf("Int"), ExpectedTypeOf("Bytes"),
     ExpectedTypeOf("Array(Int)")}

ValTypeInit == ObsIdle /\ CtxIdle /\ PoolIdle /\ FnIdle /\ ChainIdle

\* p.expect_val_type(expected_types.into_iter()); the function keeps no
\* state, so one call from the initial state stands for every call
ExpectValType(p, expected_types) ==
    /\ obs = NoObs
    /\ obs' = [fn |-> "expect_val_type", param |-> p,
               expected_types |-> expected_types,
               res |-> expect_val_type(p, expected_types),
               consumed |-> ExpectConsumed(get_type(p), expected_types, 1)]
    /\ UNCHANGED <<poolVars, fnVars, chainVars, ctxVars, budget>>

ValTypeNext ==
    \E p \in AnyParams : \E ets \in SeqsUpTo(ExpectedTypes, MaxExp) :
        ExpectValType(p, ets)

ValTypeSpec == ValTypeInit /\ [][ValTypeNext]_vars

\* the claim's reading of a match, written from the shape of the type
IsArrayType(ty) == ty \in {"Array(Int)", "Array(Bytes)"}
IsMapType(ty) == ty \in {"Map(Int)"}
Accepts(et, ty) ==
    \/ et.tag = "Array" /\ IsArrayType(ty)
    \/ et.tag = "Map" /\ IsMapType(ty)
    \/ et.tag = "Type" /\ et.ty = ty
MatchingAt(ets, ty) == {i \in 1..Len(ets) : Accepts(ets[i], ty)}

\* C13: expect_val_type returns Ok exactly when some element of the sequence
\* matches the parameter's type (Array any array type, Map any map type,
\* Type(t) only t itself) and stops at the first such element; otherwise it
\* returns TypeMismatch with the set of all the expected types of the
\* sequence and the parameter's type
C13_ExpectValType ==
    obs.fn = "expect_val_type" =>
      LET ty == obs.param.ty
          ets == obs.expected_types
          hits == MatchingAt(ets, ty) IN
        IF hits # {}
        THEN /\ obs.res = ParamOk
             /\ obs.consumed \in hits /\ \A i \in hits : obs.consumed <= i
        ELSE /\ obs.res.tag = "TypeMismatch"
             /\ obs.res.texp = {ets[i] : i \in 1..Len(ets)}
             /\ obs.res.tact = ty
             /\ obs.consumed = Len(ets)

\* an Array(Bytes) field met Type(Array(Int)), which does not accept it, and
\* then Array, which does
C13_Witness ==
    /\ obs.fn = "expect_val_type" /\ obs.res = ParamOk
    /\ obs.param.ty = "Array(Bytes)"
    /\ Len(obs.expected_types) >= 2
    /\ obs.expected_types[1] = ExpectedTypeOf("Array(Int)")
    /\ obs.consumed = 2

\* ------------------------------------ FunctionParam::expect_const_value
InvalidConstant(msg) ==
    [tag |-> "InvalidConstant", kexp |-> "", kact |-> "", texp |-> {},
     tact |-> "", msg |-> msg]

\* U::try_from(&RhsValue): the value when the literal is of U's type,
\* otherwise a TypeMismatchError naming U's type and the literal's
try_from(U, p) ==
    IF p.ty = U THEN [ok |-> TRUE, val |-> p.v, err |-> ParamOk]
    ELSE [ok |-> FALSE, val |-> 0, err |-> TypeMismatch({ExpectedTypeOf(U)}, p.ty)]

\* the closures a caller passes: f.ok is the set of values it accepts, f.msg
\* the String it returns for the others
ConstValues == {1, 2, 3}
Messages == {"too big", ""}
Closures == [ok : SUBSET ConstValues, msg : Messages]
CallOp(f, u) == IF u \in f.ok THEN [ok |-> TRUE, msg |-> ""]
                ELSE [ok |-> FALSE, msg |-> f.msg]

ConstParams ==
    {Constant(Value("Int", v)) : v \in {1, 2}} \cup
    {Constant(Value("Bytes", v)) : v \in {2, 3}} \cup
    {Variable(ty) : ty \in ScalarTypes \cup ArrayTypes \cup MapTypes}

ConstOutcome(res, conversions, calls, arg) ==
    [res |-> res, conversions |-> conversions, calls |-> calls, arg |-> arg]

\* faulty variant: a literal of another type is handed to op unconverted
expect_const_value_Unconverted(p, U, f) ==
    IF p.tag = "Constant"
    THEN LET r == CallOp(f, p.v) IN
           ConstOutcome(IF r.ok THEN ParamOk ELSE InvalidConstant(r.msg), 1, 1, p.v)
    ELSE ConstOutcome(KindMismatch("Literal", "Field"), 0, 0, 0)

\* FunctionParam::expect_const_value::<U, F>(&self, op), with the calls it
\* makes counted
expect_const_value(p, U, f) ==
    IF p.tag = "Constant"
    THEN LET u == try_from(U, p) IN
         IF ~u.ok THEN ConstOutcome(u.err, 1, 0, 0)
         ELSE LET r == CallOp(f, u.val) IN
              ConstOutcome(IF r.ok THEN ParamOk ELSE InvalidConstant(r.msg),
                           1, 1, u.val)
    ELSE ConstOutcome(KindMismatch("Literal", "Field"), 0, 0, 0)

ConstInit == ObsIdle /\ CtxIdle /\ PoolIdle /\ FnIdle /\ ChainIdle

\* p.expect_const_value::<U, _>(f); the function keeps no state, so one
\* call from the initial state stands for every call
ExpectConstValue(p, U, f) ==
    /\ obs = NoObs
    /\ obs' = [fn |-> "expect_const_value", param |-> p, U |-> U, op |-> f,
               out |-> expect_const_value(p, U, f)]
    /\ UNCHANGED <<poolVars, fnVars, chainVars, ctxVars, budget>>

ConstNext ==
    \E p \in ConstParams, U \in ScalarTypes, f \in Closures :
        ExpectConstValue(p, U, f)

ConstSpec == ConstInit /\ [][ConstNext]_vars

\* C14: expect_const_value answers a Variable with KindMismatch(expected
\* Literal, actual Field) without converting or calling the closure, a
\* Constant that does not convert to U with TypeMismatch without calling
\* the closure, and otherwise calls the closure exactly once on the
\* converted value and returns Ok exactly when the closure does, else
\* InvalidConstant with the closure's message unchanged
C14_ConstValueOrder ==
    obs.fn = "expect_const_value" =>
      LET p == obs.param
          o == obs.out IN
        IF p.tag = "Variable"
        THEN /\ o.res = KindMismatch("Literal", "Field")
             /\ o.conversions = 0 /\ o.calls = 0
        ELSE IF p.ty # obs.U
        THEN /\ o.res.tag = "TypeMismatch" /\ o.res.tact = p.ty
             /\ o.calls = 0
        ELSE /\ o.calls = 1 /\ o.arg = p.v
             /\ (o.res = ParamOk) <=> (p.v \in obs.op.ok)
             /\ p.v \notin obs.op.ok => o.res = InvalidConstant(obs.op.msg)

\* a closure that would have accepted the literal's value was not called,
\* because the literal is of another type than the one asked for
C14_Witness ==
    /\ obs.fn = "expect_const_value"
    /\ obs.param.tag = "Constant" /\ obs.param.ty # obs.U
    /\ obs.param.v \in obs.op.ok
    /\ obs.out.calls = 0 /\ obs.out.res.tag = "TypeMismatch"

\* ------------------------------------------- u64::lex and UlongRange::lex
\* a &str is the sequence of its chars
MaxStr == 4
MaxNum == 9
Alphabet == {"0", "1", "8", "f", "x", "-", ".", "!"}
Strings == SeqsUpTo(Alphabet, MaxStr)

\* u64 is modelled 12 bits wide, so that the strings of the model reach
\* the overflow of from_str_radix
U64Modulus == 2^12
U64Max == U64Modulus - 1

\* char::to_digit(radix) for the chars of the model (no upper-case letters)
Digits == <<"0", "1", "2", "3", "4", "5", "6", "7", "8", "9",
            "a", "b", "c", "d", "e", "f">>
to_digit(c, radix) ==
    IF \E i \in 1..radix : Digits[i] = c
    THEN (CHOOSE i \in 1..radix : Digits[i] = c) - 1
    ELSE -1
\* char::is_digit(16)
is_digit(c, radix) == to_digit(c, radix) >= 0

\* str::starts_with
StartsWith(input, s) == Len(input) >= Len(s) /\ SubSeq(input, 1, Len(s)) = s
Skip(input, n) == SubSeq(input, n + 1, Len(input))

\* crate::lex::span(input, rest): what was consumed between input and rest
span(input, rest) == SubSeq(input, 1, Len(input) - Len(rest))

\* LexResult
LexOk(val, rest, radix) ==
    [ok |-> TRUE, val |-> val, rest |-> rest, kind |-> "", err |-> "",
     radix |-> radix, span |-> <<>>]
LexErr(kind, err, radix, sp) ==
    [ok |-> FALSE, val |-> 0, rest |-> <<>>, kind |-> kind, err |-> err,
     radix |-> radix, span |-> sp]

\* crate::lex::expect(input, s): the rest after the literal s, or an error
expect(input, s) ==
    IF StartsWith(input, s) THEN [ok |-> TRUE, rest |-> Skip(input, Len(s))]
    ELSE [ok |-> FALSE, rest |-> input]

\* the length of the longest prefix of input made of hex digits
RECURSIVE RunLen(_, _)
RunLen(input, n) ==
    IF n < Len(input) /\ is_digit(input[n + 1], 16) THEN RunLen(input, n + 1)
    ELSE n

\* crate::lex::take_while(input, name, f) for f = |c| c.is_digit(16): the
\* longest run of chars f accepts and the rest, an error named after `name`
\* when the run is empty
take_while(input, name) ==
    LET n == RunLen(input, 0) IN
    IF n = 0
    THEN [ok |-> FALSE, tok |-> <<>>, rest |-> input,
          err |-> LexErr("ExpectedName", name, 0, input)]
    ELSE [ok |-> TRUE, tok |-> SubSeq(input, 1, n), rest |-> Skip(input, n),
          err |-> LexErr("", "", 0, <<>>)]

\* lex_digits
lex_digits(input) == take_while(input, "digit")

\* the digit loop of u64::from_str_radix: checked_mul, to_digit, checked_add
RECURSIVE Accumulate(_, _, _, _)
Accumulate(src, i, radix, acc) ==
    IF i > Len(src) THEN [ok |-> TRUE, val |-> acc, err |-> ""]
    ELSE LET d == to_digit(src[i], radix) IN
         IF d < 0 THEN [ok |-> FALSE, val |-> 0, err |-> "InvalidDigit"]
         ELSE IF acc * radix + d > U64Max
         THEN [ok |-> FALSE, val |-> 0, err |-> "PosOverflow"]
         ELSE Accumulate(src, i + 1, radix, acc * radix + d)

\* u64::from_str_radix: Empty, a lone sign, an optional '+', the digits; a
\* '-' is not a sign of an unsigned type and fails as a digit
from_str_radix(src, radix) ==
    IF src = <<>> THEN [ok |-> FALSE, val |-> 0, err |-> "Empty"]
    ELSE IF Len(src) = 1 /\ src[1] \in {"+", "-"}
    THEN [ok |-> FALSE, val |-> 0, err |-> "InvalidDigit"]
    ELSE IF src[1] = "+" THEN Accumulate(Tail(src), 1, radix, 0)
    ELSE Accumulate(src, 1, radix, 0)

\* parse_number((input, rest), radix)
parse_number(input, rest, radix) ==
    LET res == from_str_radix(input, radix) IN
    IF res.ok THEN LexOk(res.val, rest, radix)
    ELSE LexErr("ParseInt", res.err, radix, input)

\* faulty variant: the '-' is left out of the token given to parse_number
u64_lex_SignDropped(input) ==
    IF expect(input, <<"0", "x">>).ok
    THEN LET d == lex_digits(expect(input, <<"0", "x">>).rest) IN
         IF d.ok THEN parse_number(d.tok, d.rest, 16) ELSE d.err
    ELSE IF StartsWith(input, <<"0">>)
    THEN LET d == lex_digits(input) IN
         IF d.ok THEN parse_number(d.tok, d.rest, 8) ELSE d.err
    ELSE LET without_neg == expect(input, <<"-">>).rest
             d == lex_digits(without_neg) IN
         IF d.ok THEN parse_number(d.tok, d.rest, 10) ELSE d.err

\* faulty variant: a leading '0' is not taken for the octal prefix
u64_lex_NoOctal(input) ==
    IF expect(input, <<"0", "x">>).ok
    THEN LET d == lex_digits(expect(input, <<"0", "x">>).rest) IN
         IF d.ok THEN parse_number(d.tok, d.rest, 16) ELSE d.err
    ELSE LET without_neg == expect(input, <<"-">>).rest
             d == lex_digits(without_neg) IN
         IF d.ok THEN parse_number(span(input, d.rest), d.rest, 10) ELSE d.err

\* <u64 as Lex>::lex
u64_lex(input) ==
    IF expect(input, <<"0", "x">>).ok
    THEN LET d == lex_digits(expect(input, <<"0", "x">>).rest) IN
         IF d.ok THEN parse_number(d.tok, d.rest, 16) ELSE d.err
    ELSE IF StartsWith(input, <<"0">>)
    THEN LET d == lex_digits(input) IN
         IF d.ok THEN parse_number(d.tok, d.rest, 8) ELSE d.err
    ELSE LET without_neg == expect(input, <<"-">>).rest
             d == lex_digits(without_neg) IN
         IF d.ok THEN parse_number(span(input, d.rest), d.rest, 10) ELSE d.err

\* Result<(UlongRange, &str), LexError>
RangeOk(first, last, rest) ==
    [ok |-> TRUE, first |-> first, last |-> last, rest |-> rest,
     kind |-> "", span |-> <<>>]
RangeErr(kind, sp) ==
    [ok |-> FALSE, first |-> 0, last |-> 0, rest |-> <<>>,
     kind |-> kind, span |-> sp]

\* faulty variant: equal bounds are rejected too
UlongRange_lex_Strict(initial_input) ==
    LET f == u64_lex(initial_input) IN
    IF ~f.ok THEN RangeErr(f.kind, f.span)
    ELSE LET dots == expect(f.rest, <<".", ".">>)
             l == IF dots.ok THEN u64_lex(dots.rest) ELSE f IN
         IF ~l.ok THEN RangeErr(l.kind, l.span)
         ELSE IF l.val <= f.val
         THEN RangeErr("IncompatibleRangeBounds", span(initial_input, l.rest))
         ELSE RangeOk(f.val, l.val, l.rest)

\* <UlongRange as Lex>::lex
UlongRange_lex(initial_input) ==
    LET f == u64_lex(initial_input) IN
    IF ~f.ok THEN RangeErr(f.kind, f.span)
    ELSE LET dots == expect(f.rest, <<".", ".">>)
             l == IF dots.ok THEN u64_lex(dots.rest) ELSE f IN
         IF ~l.ok THEN RangeErr(l.kind, l.span)
         ELSE IF l.val < f.val
         THEN RangeErr("IncompatibleRangeBounds", span(initial_input, l.rest))
         ELSE RangeOk(f.val, l.val, l.rest)

\* writing a number: its digits in a radix, most significant first
RECURSIVE DigitsOf(_, _)
DigitsOf(n, radix) ==
    IF n < radix THEN <<Digits[n + 1]>>
    ELSE Append(DigitsOf(n \div radix, radix), Digits[(n % radix) + 1])
\* decimal, 0x-prefixed hexadecimal, 0-prefixed octal
Write(n, radix) ==
    CASE radix = 16 -> <<"0", "x">> \o DigitsOf(n, 16)
      [] radix = 8 -> <<"0">> \o DigitsOf(n, 8)
      [] OTHER -> DigitsOf(n, 10)

Radixes == {8, 10, 16}
Nums == 0..MaxNum \cup {16, 64, U64Max}
\* what may follow a literal: nothing, or text that starts with no hex digit
Remainders == {<<>>, <<"!">>, <<"x">>, <<"-">>, <<"x", "1">>}
NoWritten == [two |-> FALSE, a |-> 0, ra |-> 0, b |-> 0, rb |-> 0, rest |-> <<>>,
              made |-> FALSE]

LexInit == ObsIdle /\ CtxIdle /\ PoolIdle /\ FnIdle /\ ChainIdle

Lexed(input, written) ==
    [fn |-> "lex", input |-> input, written |-> written,
     u64 |-> u64_lex(input), range |-> UlongRange_lex(input)]

\* u64::lex(input) and UlongRange::lex(input) on any text; the lexers keep
\* no state, so one call from the initial state stands for every call
LexInput(input) ==
    /\ obs = NoObs
    /\ obs' = Lexed(input, NoWritten)
    /\ UNCHANGED <<poolVars, fnVars, chainVars, ctxVars, budget>>

\* the same on the text "a" followed by rest, a written in radix ra
LexNumber(a, ra, rest) ==
    /\ obs = NoObs
    /\ obs' = Lexed(Write(a, ra) \o rest,
                    [two |-> FALSE, a |-> a, ra |-> ra, b |-> a, rb |-> ra,
                     rest |-> rest, made |-> TRUE])
    /\ UNCHANGED <<poolVars, fnVars, chainVars, ctxVars, budget>>

\* the same on the text "a..b" followed by rest
LexRange(a, ra, b, rb, rest) ==
    /\ obs = NoObs
    /\ obs' = Lexed(Write(a, ra) \o <<".", ".">> \o Write(b, rb) \o rest,
                    [two |-> TRUE, a |-> a, ra |-> ra, b |-> b, rb |-> rb,
                     rest |-> rest, made |-> TRUE])
    /\ UNCHANGED <<poolVars, fnVars, chainVars, ctxVars, budget>>

LexNext ==
    \/ \E input \in Strings : LexInput(input)
    \/ \E a \in Nums, ra \in Radixes, rest \in Remainders : LexNumber(a, ra, rest)
    \/ \E a, b \in Nums, ra, rb \in Radixes, rest \in Remainders :
         LexRange(a, ra, b, rb, rest)

LexSpec == LexInit /\ [][LexNext]_vars

\* ---- properties of the lexers
HexChars == {Digits[i] : i \in 1..16}
\* the number of hex digits that follow the first `from` chars of input
HexRun(input, from) ==
    CHOOSE n \in 0..(Len(input) - from) :
      /\ \A i \in 1..n : input[from + i] \in HexChars
      /\ from + n = Len(input) \/ input[from + n + 1] \notin HexChars
SignLen(input) == IF input # <<>> /\ input[1] = "-" THEN 1 ELSE 0
\* an optional leading '-' and the longest run of hex digits after it
Token(input) == SubSeq(input, 1, SignLen(input) + HexRun(input, SignLen(input)))

\* the written text ends in the single digit "0" and an 'x' follows it: the
\* lexer reads the two together as the hexadecimal prefix
ReadsAsHexPrefix(w) ==
    /\ Write(w.b, w.rb) = <<"0">>
    /\ w.rest # <<>> /\ w.rest[1] = "x"

\* C15: "a..b" lexes to the inclusive range a..=b when a <= b, equal bounds
\* included, and fails with IncompatibleRangeBounds whose span is the whole
\* consumed text "a..b" when a > b; a literal that no ".." follows lexes to
\* a..=a; every range that lexes has lower <= upper
C15_RangeBounds ==
    obs.fn = "lex" =>
      LET w == obs.written IN
        /\ obs.range.ok => obs.range.first <= obs.range.last
        /\ (w.made /\ ~ReadsAsHexPrefix(w)) =>
             IF ~w.two THEN obs.range = RangeOk(w.a, w.a, w.rest)
             ELSE IF w.a <= w.b THEN obs.range = RangeOk(w.a, w.b, w.rest)
             ELSE obs.range = RangeErr("IncompatibleRangeBounds",
                      Write(w.a, w.ra) \o <<".", ".">> \o Write(w.b, w.rb))

\* equal bounds written in two radixes lexed to a one-value range, and text
\* was left over
C15_Witness ==
    /\ obs.fn = "lex" /\ obs.written.made /\ obs.written.two
    /\ obs.written.a = obs.written.b /\ obs.written.ra # obs.written.rb
    /\ obs.written.a > MaxNum
    /\ obs.range.ok /\ obs.range.first = obs.range.last
    /\ obs.range.rest # <<>>

\* the radix the prefix of the input selects
SelectedRadix(input) ==
    IF StartsWith(input, <<"0", "x">>) THEN 16
    ELSE IF StartsWith(input, <<"0">>) THEN 8
    ELSE 10

\* C16 as stated: every n written in decimal, 0x-hexadecimal or 0-octal and
\* followed by a remainder that starts with no hex digit lexes to n and that
\* remainder
C16_AsStated ==
    (obs.fn = "lex" /\ obs.written.made /\ ~obs.written.two) =>
      /\ obs.u64.ok /\ obs.u64.val = obs.written.a
      /\ obs.u64.rest = obs.written.rest

\* C16: the conversion is done in radix 16 for input that starts with "0x",
\* else in radix 8 for input that starts with '0', else in radix 10; every
\* n in the range of u64 written in decimal, 0x-hexadecimal or 0-octal and
\* followed by a remainder that starts with no hex digit lexes to n and that
\* remainder, unless the text is the single digit "0" followed by 'x'
C16_RadixRoundTrip ==
    obs.fn = "lex" =>
      LET w == obs.written
          r == obs.u64 IN
        /\ r.radix \in {0, SelectedRadix(obs.input)}
        /\ r.radix = 0 => ~r.ok /\ r.kind = "ExpectedName"
        /\ (w.made /\ ~w.two /\ ~ReadsAsHexPrefix(w)) =>
             r.ok /\ r.val = w.a /\ r.rest = w.rest /\ r.radix = SelectedRadix(Write(w.a, w.ra))

\* a number of two octal digits and more was read back from its 0-prefixed
\* octal text, with text left over
C16_Witness ==
    /\ obs.fn = "lex" /\ obs.written.made /\ ~obs.written.two
    /\ obs.written.ra = 8 /\ obs.written.a >= 8
    /\ obs.written.rest # <<>>
    /\ obs.u64.ok /\ obs.u64.val = obs.written.a /\ obs.u64.radix = 8

\* input that takes the third branch of u64::lex
DecimalPath(input) == SelectedRadix(input) = 10

\* C17 as stated: on the decimal path input that begins with '-' never
\* lexes, and every failure is ParseInt with radix 10 and the token as span
C17_AsStated ==
    (obs.fn = "lex" /\ DecimalPath(obs.input)) =>
      /\ SignLen(obs.input) = 1 => ~obs.u64.ok
      /\ ~obs.u64.ok =>
           /\ obs.u64.kind = "ParseInt" /\ obs.u64.radix = 10
           /\ obs.u64.span = Token(obs.input)

\* C17: on the decimal path the text given to the conversion is the
\* optional leading '-' and the longest run of hex digits after it; input
\* that begins with '-' never lexes; when a hex digit follows the optional
\* '-', every failure is ParseInt with radix 10 and that token as span and
\* every success leaves what follows the token; when none follows, lexing
\* fails before the conversion, with the error of take_while
C17_WidestToken ==
    (obs.fn = "lex" /\ DecimalPath(obs.input)) =>
      LET r == obs.u64 IN
        /\ SignLen(obs.input) = 1 => ~r.ok
        /\ IF HexRun(obs.input, SignLen(obs.input)) > 0
           THEN /\ r.radix = 10
                /\ ~r.ok => r.kind = "ParseInt" /\ r.span = Token(obs.input)
                /\ r.ok => r.rest = Skip(obs.input, Len(Token(obs.input)))
           ELSE ~r.ok /\ r.kind = "ExpectedName" /\ r.radix = 0

\* "-1" and more digits followed by other text failed in the conversion,
\* with the sign and the digits as span
C17_Witness ==
    /\ obs.fn = "lex" /\ SignLen(obs.input) = 1
    /\ ~obs.u64.ok /\ obs.u64.kind = "ParseInt" /\ obs.u64.radix = 10
    /\ Len(obs.u64.span) >= 3 /\ Len(obs.u64.span) < Len(obs.input)
    /\ obs.u64.span[1] = "-"

\* ------------------------------------------------ Regex::new (imp_real.rs)
\* RegexFormat
Formats == {"Literal", "Raw"}
RegexPatterns == {"a", "b+", "(", ".{4079,65535}"}
\* what regex::bytes::RegexBuilder::build makes of a pattern: a syntax
\* error, or a program of some size (in units of the size limit)
SyntaxOk(pattern) == pattern # "("
CompiledSize(pattern) == IF pattern = ".{4079,65535}" THEN 3 ELSE 1
SizeLimits == {2, 4}
NoBuilder == [registered |-> FALSE, accepts |-> {}]
\* FilterParser: the settings Regex::new reads; a registered builder is
\* given by the patterns its build_pattern returns Some for
Parsers ==
    [gen_regex_builder : {NoBuilder} \cup
         {[registered |-> TRUE, accepts |-> A] : A \in SUBSET RegexPatterns},
     regex_compiled_size_limit : SizeLimits]

\* SimpleRegex::new
SimpleRegex_new(pattern, format, parser) ==
    IF ~SyntaxOk(pattern) THEN [ok |-> FALSE, err |-> "Syntax"]
    ELSE IF CompiledSize(pattern) > parser.regex_compiled_size_limit
    THEN [ok |-> FALSE, err |-> "CompiledTooBig"]
    ELSE [ok |-> TRUE, err |-> ""]

\* GenericRegexBuilder::build_pattern
build_pattern(re_builder, pattern) == pattern \in re_builder.accepts

\* Result<Regex, Error>, with the calls of SimpleRegex::new counted
RegexResult(tag, pattern, format, err, simple_builds) ==
    [tag |-> tag, pattern |-> pattern, format |-> format, err |-> err,
     simple_builds |-> simple_builds]

\* faulty variant: a pattern the builder declines is compiled as Simple
Regex_new_Fallback(pattern, format, parser) ==
    IF parser.gen_regex_builder.registered
       /\ build_pattern(parser.gen_regex_builder, pattern)
    THEN RegexResult("Gen", pattern, format, "", 0)
    ELSE LET simple_re == SimpleRegex_new(pattern, format, parser) IN
         IF simple_re.ok THEN RegexResult("Simple", pattern, format, "", 1)
         ELSE RegexResult("SimpleRegexErr", "", "", simple_re.err, 1)

\* Regex::new
Regex_new(pattern, format, parser) ==
    IF ~parser.gen_regex_builder.registered
    THEN LET simple_re == SimpleRegex_new(pattern, format, parser) IN
         IF simple_re.ok THEN RegexResult("Simple", pattern, format, "", 1)
         ELSE RegexResult("SimpleRegexErr", "", "", simple_re.err, 1)
    ELSE IF ~build_pattern(parser.gen_regex_builder, pattern)
    THEN RegexResult("UnsupportedPattern", pattern, "", "", 0)
    ELSE RegexResult("Gen", pattern, format, "", 0)

\* Regex::format
Regex_format(re) == re.format

RegexNewInit == ObsIdle /\ CtxIdle /\ PoolIdle /\ FnIdle /\ ChainIdle

\* Regex::new(pattern, format, parser); the function keeps no state, so one
\* call from the initial state stands for every call
RegexNew(pattern, format, parser) ==
    /\ obs = NoObs
    /\ obs' = [fn |-> "Regex::new", pattern |-> pattern, format |-> format,
               parser |-> parser, res |-> Regex_new(pattern, format, parser)]
    /\ UNCHANGED <<poolVars, fnVars, chainVars, ctxVars, budget>>

RegexNewNext ==
    \E pattern \in RegexPatterns, format \in Formats, parser \in Parsers :
        RegexNew(pattern, format, parser)

RegexNewSpec == RegexNewInit /\ [][RegexNewNext]_vars

\* C18: with a builder registered Regex::new returns Regex::Gen when the
\* builder accepts the pattern and Err(UnsupportedPattern) with the pattern
\* when it declines, and never builds a Simple regex; with no builder it
\* returns Regex::Simple or SimpleRegexErr and never Gen; format() of the
\* result is the format passed in
C18_VariantSelection ==
    obs.fn = "Regex::new" =>
      LET b == obs.parser.gen_regex_builder
          re == obs.res IN
        /\ IF b.registered
           THEN /\ re.simple_builds = 0
                /\ IF obs.pattern \in b.accepts THEN re.tag = "Gen"
                   ELSE re.tag = "UnsupportedPattern" /\ re.pattern = obs.pattern
           ELSE /\ re.tag \in {"Simple", "SimpleRegexErr"}
                /\ re.tag = "Simple" <=>
                     (obs.pattern # "(" /\
                      CompiledSize(obs.pattern) <= obs.parser.regex_compiled_size_limit)
        /\ re.tag \in {"Gen", "Simple"} => Regex_format(re) = obs.format

\* a registered builder declined a pattern the default engine compiles
C18_Witness ==
    /\ obs.fn = "Regex::new"
    /\ obs.parser.gen_regex_builder.registered
    /\ obs.pattern \notin obs.parser.gen_regex_builder.accepts
    /\ SimpleRegex_new(obs.pattern, obs.format, obs.parser).ok
    /\ obs.res.tag = "UnsupportedPattern"

\* C19: the default value of each optional parameter the call site left
\* out is cloned exactly once, by compile, and no invocation of the closure
\* clones a default value again: the number of clones does not depend on
\* the number of invocations
C19_DefaultsClonedOnce ==
    closure.state = "compiled" => clones = Opt - Supplied

\* no thread is at a lock() call while it owns the mutex
NoSelfAcquire ==
    \A t \in Threads : (AtPc(t, "fs_lock") \/ AtPc(t, "d_lock")) => lock # t

\* C20: under fair scheduling no thread calls lock() on the pool mutex
\* while it owns it, the drop of the entry taken out of the pool included,
\* and every from_str and every drop that started returns
C20_DeadlockFree ==
    /\ []NoSelfAcquire
    /\ \A t \in Threads : ~Idle(t) ~> Idle(t)

\* a thread is at the lock() call of the drop of the entry it took out of
\* the pool, while another thread owns the mutex
C20_Witness ==
    \E t \in Threads :
      /\ AtPc(t, "d_lock") /\ Len(stack[t]) = 2
      /\ lock \notin {NoThread, t}

\* ------------------------------------------- removals from the pool by drop
\* thread t has just taken an entry out of the pool: pool.take returned Some
JustTook(t) == AtPc(t, "d_unlock") /\ Top(t).cached # NoObj

\* C21: a pool entry is never removed while an external Regex that shares
\* its compiled object, other than the value being dropped, is still live
C21_NoPrematureEviction ==
    \A t \in Threads :
        JustTook(t) => \A u \in Threads : held[u][Top(t).cached] = 0

\* C22: every entry Regex::drop removes, the drop of the entry it took out
\* of the pool included, shares the compiled object of the value being
\* dropped; an entry another thread inserted for an equal pattern string is
\* never removed
C22_RemovesOwnEntry ==
    \A t \in Threads :
        JustTook(t) => Top(t).cached = Top(t).obj

\* ------------------------------------------------ from_str that fails to compile
\* thread t is inside Regex::from_str(s) for an s that does not compile
Failing(t) ==
    /\ ~Idle(t)
    /\ Top(t).pc \in {"fs_lock", "fs_get", "fs_build", "fs_err"}
    /\ ~Compiles(Top(t).pat)

\* thread u is blocked in REGEX_POOL.lock()
Waiting(u) == AtPc(u, "fs_lock") \/ AtPc(u, "d_lock")

\* what a failing from_str may do in one step: none of its own steps touches
\* the pool, the compiled objects or the caller's values; nothing changes
\* the pool while it owns the lock; its last step returns with the lock free
C23_Step ==
    \A t \in Threads :
        Failing(t) =>
            /\ lock = t => pool' = pool
            /\ stack'[t] # stack[t] =>
                  /\ pool' = pool /\ arc' = arc
                  /\ compiles' = compiles /\ held' = held
            /\ (AtPc(t, "fs_err") /\ stack'[t] # stack[t]) =>
                  /\ stack'[t] = <<>>
                  /\ lock' = NoThread

\* C23: a from_str(s) that fails to compile s returns the error with the
\* pool's entries exactly as they were, and releases the pool lock: the
\* failing call returns, and every thread blocked in lock() during it
\* acquires the lock afterwards
C23_FailedCompileIsClean ==
    /\ [][C23_Step]_vars
    /\ \A t \in Threads : AtPc(t, "fs_err") ~> (Idle(t) /\ lock # t)
    /\ \A t, u \in Threads :
          (AtPc(t, "fs_err") /\ Waiting(u)) ~> (lock = u)

\* a from_str has failed to compile and is about to return, the pool holds
\* an entry, and another thread is blocked in lock()
C23_Witness ==
    \E t, u \in Threads :
      /\ AtPc(t, "fs_err") /\ lock = t
      /\ pool # {}
      /\ Waiting(u)

\* ------------------------------------------------ ownership of the inner Arc
\* context i is the only holder of its allocation: strong count 1, no Arc
\* of it in the caller's hands, no other context on it
SoleHolder(i) ==
    /\ InnerOf(i).strong = 1
    /\ arcs[ctxs[i].inner] = 0
    /\ \A j \in Slots \ {i} : Live(j) => ctxs[j].inner # ctxs[i].inner

\* C24: every live FunctionDefinitionContext is the only holder of its
\* reference-counted cell (strong count exactly 1); so as_any_mut never
\* panics, as_mut panics only when the payload is not of the requested
\* type, and try_unwrap never reaches its unreachable branch
C24_SoleOwnership ==
    /\ \A i \in Slots : Live(i) => SoleHolder(i)
    /\ op.name = "as_any_mut" => op.tag # "panic"
    /\ (op.name = "as_mut" /\ op.tag = "panic") =>
          ~IsType(InnerOf(op.target), op.ty)
    /\ op.name = "try_unwrap" => op.tag # "unreachable"

\* try_unwrap with the payload's type has just given the value while
\* another context with the same callbacks and an equal payload is live
C24_Witness ==
    /\ op.name = "try_unwrap" /\ op.tag = "Ok"
    /\ \E j \in Slots :
          /\ Live(j) /\ ctxs[j].clone_cb = op.ty
          /\ InnerOf(j).val = op.val
====
